---- MODULE Spec2Model ----
(***************************************************************************)
(* Model of dbusconn/protocol.go: the registry of devices kept by a        *)
(* Protocol (the root one and one per bridge), the bridge map kept by the  *)
(* RootProto, and the mutexes that serialise them.  Every dbus method is   *)
(* a sequence of steps executed by a calling goroutine; a step is one      *)
(* statement (or one group of statements that touch nothing shared).       *)
(***************************************************************************)
EXTENDS Integers, FiniteSets, Sequences, TLC

\* ---------------------------------------------------------------- bounds
NumThreads == 2          \* goroutines calling the dbus methods concurrently
NumDevs == 2             \* device ids
NumBridges == 1          \* bridge ids
NumItems == 1            \* item ids
MaxProtos == 2           \* bridge Protocol objects ever allocated
MaxCalls == 4            \* method calls started in one behaviour

Threads == 1..NumThreads
DevIds == 1..NumDevs
BridgeIds == 1..NumBridges
ItemIds == 1..NumItems
Root == 0                \* the Protocol object of the root protocol
ProtoIds == 0..MaxProtos \* Protocol objects: the root and the bridges' ones
NoOne == 0               \* a free mutex

VARIABLES
    Devices,      \* Protocol.Devices: per Protocol object, a map devID -> Items of the device
    ready,        \* Protocol.ready
    Callbacks,    \* Protocol.Callbacks is not nil
    lock,         \* Protocol.Mutex: NoOne, or the goroutine that locked it
    devLocks,     \* the Device mutexes that are locked, as <<protocol, devID>>
    Bridges,      \* Dbus.Bridges: a map bridgeID -> Protocol object
    nextProto,    \* the next Protocol object AddBridge allocates
    busObj,       \* bus objects of the bridges: bridgeID -> exported Protocol object
    devExported,  \* bus objects of the devices, as <<protocol, devID>>
    signals,      \* the signals emitted so far, counted by kind and path
    goroutines,   \* the goroutines started by "go p.Callbacks...", in start order
    th,           \* the calling goroutines: position and locals
    calls,        \* the number of calls started
    addsSince,    \* history: AddDevice calls returned for <<p, d>> since d was last deleted (0, 1, 2 = many)
    setInvoked,   \* history: setReady was called on the protocol
    setDone,      \* history: setReady has returned on the protocol
    logLevel,     \* the process-wide level of the logger (logging.SetLevel)
    logged,       \* the entries setLogLevel has logged, counted by severity
    propValue,    \* c.Value of the last change of the property LogLevel
    propErr       \* what setLogLevel returned for it: "nil" or "InvalidArg"

vars == <<Devices, ready, Callbacks, lock, devLocks, Bridges, nextProto, busObj,
          devExported, signals, goroutines, th, calls, addsSince, setInvoked, setDone,
          logLevel, logged, propValue, propErr>>

registry == <<Devices, ready, Callbacks, Bridges, nextProto, busObj, devExported,
              signals, goroutines>>
history == <<addsSince, setInvoked, setDone>>
logvars == <<logLevel, logged, propValue, propErr>>

\* ------------------------------------------------------------- helpers
\* a Go map without key k
MapDelete(m, k) == [x \in DOMAIN m \ {k} |-> m[x]]

\* a Go map with m[k] = v
MapPut(m, k, v) == [x \in DOMAIN m \cup {k} |-> IF x = k THEN v ELSE m[x]]

EmptyMap == [x \in {} |-> 0]

\* a goroutine that is in no call.  p, d, b: the receiver and the arguments; bp: the
\* local "proto" of AddBridge, "bridge.Protocol" of RemoveBridge; alreadyAdded, ready:
\* the locals of these names; nested: RemoveDevice was called by RemoveBridge; visited:
\* the keys the range of RemoveBridge has produced; emitted, bemitted, dispatched: the
\* device signals, bridge signals and callback goroutines of this call.  History of the
\* call: in0, the id was in the map when the call took the lock; n0, the size of the
\* map then; cleared, the items RemoveDevice deleted.  err: the local "err" of
\* AddBridge, "unset" before conn.Export has returned
Idle ==
    [pc |-> "idle", p |-> Root, d |-> 0, b |-> 0, bp |-> Root,
     alreadyAdded |-> FALSE, ready |-> FALSE, nested |-> FALSE, visited |-> {},
     emitted |-> 0, bemitted |-> 0, dispatched |-> 0,
     in0 |-> FALSE, n0 |-> 0, cleared |-> 0, err |-> "unset"]

\* the Protocol objects the application reaches: the root and the bridges of the map
AppReachable == {Root} \cup {Bridges[b] : b \in DOMAIN Bridges}

\* the Protocol objects a caller of the dbus methods reaches: those, and the bridge
\* objects exported on the bus
Reachable == AppReachable \cup {busObj[b] : b \in DOMAIN busObj}

Min(a, b) == IF a < b THEN a ELSE b

\* ---------------------------------------------------------------- Init
\* the state after exportRootProtocolObject: a root Protocol that is not ready,
\* with no device, no callbacks and no bridge
Init ==
    /\ Devices = [p \in ProtoIds |-> EmptyMap]
    /\ ready = [p \in ProtoIds |-> FALSE]
    /\ Callbacks = [p \in ProtoIds |-> FALSE]
    /\ lock = [p \in ProtoIds |-> NoOne]
    /\ devLocks = {}
    /\ Bridges = EmptyMap
    /\ nextProto = 1
    /\ busObj = EmptyMap
    /\ devExported = {}
    /\ signals = [devAdded |-> [p \in ProtoIds |-> 0], devRemoved |-> [p \in ProtoIds |-> 0],
                  bridgeAdded |-> [b \in BridgeIds |-> 0], bridgeRemoved |-> [b \in BridgeIds |-> 0]]
    /\ goroutines = <<>>
    /\ th = [t \in Threads |-> Idle]
    /\ calls = 0
    /\ addsSince = [p \in ProtoIds |-> [d \in DevIds |-> 0]]
    /\ setInvoked = [p \in ProtoIds |-> FALSE]
    /\ setDone = [p \in ProtoIds |-> FALSE]
    /\ logLevel = "DEBUG"
    /\ logged = [info |-> 0, error |-> 0]
    /\ propValue = "DEBUG"
    /\ propErr = "nil"

\* a call starts: goroutine t enters a method at position pc with receiver p
Enter(t, pc, p, d, b) ==
    /\ th[t].pc = "idle"
    /\ calls < MaxCalls
    /\ calls' = calls + 1
    /\ th' = [th EXCEPT ![t] = [Idle EXCEPT !.pc = pc, !.p = p, !.d = d, !.b = b]]

\* goroutine t moves to position pc
Goto(t, pc) == th' = [th EXCEPT ![t].pc = pc]

\* p.Lock(): sync.Mutex is not reentrant, a locked mutex blocks every caller
Lock(t, p) ==
    /\ lock[p] = NoOne
    /\ lock' = [lock EXCEPT ![p] = t]

\* p.Unlock()
Unlock(p) == lock' = [lock EXCEPT ![p] = NoOne]

\* the value a method leaves in goroutine t when it returns: RemoveDevice called
\* by RemoveBridge returns into RemoveBridge's loop, every other call ends
Return(t) ==
    IF th[t].nested
    THEN [th[t] EXCEPT !.pc = "rb_loop", !.nested = FALSE, !.visited = @ \cup {th[t].d}]
    ELSE Idle

\* ------------------------------------------------------------ the calls
CallAddDevice(t) ==
    /\ \E p \in Reachable, d \in DevIds : Enter(t, "ad_lock", p, d, 0)
    /\ UNCHANGED <<registry, lock, devLocks, history, logvars>>

CallRemoveDevice(t) ==
    /\ \E p \in Reachable, d \in DevIds : Enter(t, "rd_lock", p, d, 0)
    /\ UNCHANGED <<registry, lock, devLocks, history, logvars>>

\* AddBridge allocates a Protocol object: no more calls than objects left
CallAddBridge(t) ==
    /\ nextProto + Cardinality({u \in Threads : th[u].pc \in {"ab_lock", "ab_check", "ab_new"}}) <= MaxProtos
    /\ \E b \in BridgeIds : Enter(t, "ab_lock", Root, 0, b)
    /\ UNCHANGED <<registry, lock, devLocks, history, logvars>>

CallRemoveBridge(t) ==
    /\ \E b \in BridgeIds : Enter(t, "rb_lock", Root, 0, b)
    /\ UNCHANGED <<registry, lock, devLocks, history, logvars>>

CallIsReady(t) ==
    /\ \E p \in Reachable : Enter(t, "ir_lock", p, 0, 0)
    /\ UNCHANGED <<registry, lock, devLocks, history, logvars>>

CallSetReady(t) ==
    /\ \E p \in AppReachable :
          /\ Enter(t, "sr_lock", p, 0, 0)
          /\ setInvoked' = [setInvoked EXCEPT ![p] = TRUE]
    /\ UNCHANGED <<registry, lock, devLocks, addsSince, setDone, logvars>>

\* the application sets the exported field Callbacks of a Protocol
SetCallbacks(p) ==
    /\ p \in AppReachable
    /\ ~Callbacks[p]
    /\ lock[p] = NoOne
    /\ Callbacks' = [Callbacks EXCEPT ![p] = TRUE]
    /\ UNCHANGED <<Devices, ready, lock, devLocks, Bridges, nextProto, busObj, devExported,
                   signals, goroutines, th, calls, history, logvars>>

\* a device gets an item, under the device's lock
AddItem(p, d, i) ==
    /\ calls < MaxCalls
    /\ p \in Reachable
    /\ d \in DOMAIN Devices[p]
    /\ <<p, d>> \notin devLocks
    /\ i \notin Devices[p][d]
    /\ Devices' = [Devices EXCEPT ![p][d] = @ \cup {i}]
    /\ calls' = calls + 1
    /\ UNCHANGED <<ready, Callbacks, lock, devLocks, Bridges, nextProto, busObj, devExported,
                   signals, goroutines, th, history, logvars>>

\* a goroutine started by "go p.Callbacks..." starts to run, whenever the scheduler likes
CallbackStart(i) ==
    /\ i \in DOMAIN goroutines
    /\ ~goroutines[i].started
    /\ goroutines' = [goroutines EXCEPT ![i].started = TRUE]
    /\ UNCHANGED <<Devices, ready, Callbacks, lock, devLocks, Bridges, nextProto, busObj,
                   devExported, signals, th, calls, history, logvars>>

\* ----------------------------------------------------- setReady, IsReady
SrLock(t) ==
    /\ th[t].pc = "sr_lock"
    /\ Lock(t, th[t].p)
    /\ Goto(t, "sr_set")
    /\ UNCHANGED <<registry, devLocks, calls, history, logvars>>

\* SrSet as a toggle of the flag
SrSet_Toggle(t) ==
    /\ th[t].pc = "sr_set"
    /\ ready' = [ready EXCEPT ![th[t].p] = ~@]
    /\ Goto(t, "sr_unlock")
    /\ UNCHANGED <<Devices, Callbacks, lock, devLocks, Bridges, nextProto, busObj, devExported,
                   signals, goroutines, calls, history, logvars>>

SrSet(t) ==
    /\ th[t].pc = "sr_set"
    /\ ready' = [ready EXCEPT ![th[t].p] = TRUE]
    /\ Goto(t, "sr_unlock")
    /\ UNCHANGED <<Devices, Callbacks, lock, devLocks, Bridges, nextProto, busObj, devExported,
                   signals, goroutines, calls, history, logvars>>

SrUnlock(t) ==
    /\ th[t].pc = "sr_unlock"
    /\ Unlock(th[t].p)
    /\ setDone' = [setDone EXCEPT ![th[t].p] = TRUE]
    /\ th' = [th EXCEPT ![t] = Idle]
    /\ UNCHANGED <<registry, devLocks, calls, addsSince, setInvoked, logvars>>

IrLock(t) ==
    /\ th[t].pc = "ir_lock"
    /\ Lock(t, th[t].p)
    /\ Goto(t, "ir_read")
    /\ UNCHANGED <<registry, devLocks, calls, history, logvars>>

IrRead(t) ==
    /\ th[t].pc = "ir_read"
    /\ th' = [th EXCEPT ![t].pc = "ir_unlock", ![t].ready = ready[th[t].p]]
    /\ UNCHANGED <<registry, lock, devLocks, calls, history, logvars>>

\* IsReady returns th[t].ready
IrUnlock(t) ==
    /\ th[t].pc = "ir_unlock"
    /\ Unlock(th[t].p)
    /\ th' = [th EXCEPT ![t] = Idle]
    /\ UNCHANGED <<registry, devLocks, calls, history, logvars>>

\* ------------------------------------------------------------ AddDevice
AdLock(t) ==
    /\ th[t].pc = "ad_lock"
    /\ Lock(t, th[t].p)
    /\ th' = [th EXCEPT ![t].pc = "ad_check",
                        ![t].in0 = th[t].d \in DOMAIN Devices[th[t].p],
                        ![t].n0 = Cardinality(DOMAIN Devices[th[t].p])]
    /\ UNCHANGED <<registry, devLocks, calls, history, logvars>>

\* AdCheck without the lookup of devID
AdCheck_NoLookup(t) ==
    /\ th[t].pc = "ad_check"
    /\ th' = [th EXCEPT ![t].alreadyAdded = FALSE, ![t].pc = "ad_insert"]
    /\ UNCHANGED <<registry, lock, devLocks, calls, history, logvars>>

\* AdCheck with emitDeviceAdded after the if statement
AdCheck_EmitAlways(t) ==
    /\ th[t].pc = "ad_check"
    /\ LET found == th[t].d \in DOMAIN Devices[th[t].p]
       IN th' = [th EXCEPT ![t].alreadyAdded = found,
                           ![t].pc = IF found THEN "ad_emit" ELSE "ad_insert"]
    /\ UNCHANGED <<registry, lock, devLocks, calls, history, logvars>>

AdCheck(t) ==
    /\ th[t].pc = "ad_check"
    /\ LET found == th[t].d \in DOMAIN Devices[th[t].p]
       IN th' = [th EXCEPT ![t].alreadyAdded = found,
                           ![t].pc = IF found THEN "ad_unlock" ELSE "ad_insert"]
    /\ UNCHANGED <<registry, lock, devLocks, calls, history, logvars>>

\* AdInsert as a write of a stale copy of the map: the other entries are lost
AdInsert_Overwrite(t) ==
    /\ th[t].pc = "ad_insert"
    /\ Devices' = [Devices EXCEPT ![th[t].p] = MapPut(EmptyMap, th[t].d, {})]
    /\ Goto(t, "ad_export")
    /\ UNCHANGED <<ready, Callbacks, lock, devLocks, Bridges, nextProto, busObj, devExported,
                   signals, goroutines, calls, history, logvars>>

\* initDevice and p.Devices[devID] = device: a device with no item
AdInsert(t) ==
    /\ th[t].pc = "ad_insert"
    /\ Devices' = [Devices EXCEPT ![th[t].p] = MapPut(@, th[t].d, {})]
    /\ Goto(t, "ad_export")
    /\ UNCHANGED <<ready, Callbacks, lock, devLocks, Bridges, nextProto, busObj, devExported,
                   signals, goroutines, calls, history, logvars>>

AdExport(t) ==
    /\ th[t].pc = "ad_export"
    /\ devExported' = devExported \cup {<<th[t].p, th[t].d>>}
    /\ Goto(t, "ad_cb")
    /\ UNCHANGED <<Devices, ready, Callbacks, lock, devLocks, Bridges, nextProto, busObj,
                   signals, goroutines, calls, history, logvars>>

\* AdCallback without the go statement: p.Callbacks.AddDevice is called in the calling
\* goroutine, which goes on when the callback returns; a callback that blocks never does
AdCallback_Sync(t) ==
    /\ th[t].pc = "ad_cb"
    /\ ~Callbacks[th[t].p]
    /\ Goto(t, "ad_emit")
    /\ UNCHANGED <<registry, lock, devLocks, calls, history, logvars>>

AdCallback(t) ==
    /\ th[t].pc = "ad_cb"
    /\ IF Callbacks[th[t].p]
       THEN /\ goroutines' = Append(goroutines, [kind |-> "AddDevice", p |-> th[t].p,
                                                 d |-> th[t].d, started |-> FALSE])
            /\ th' = [th EXCEPT ![t].pc = "ad_emit", ![t].dispatched = @ + 1]
       ELSE /\ goroutines' = goroutines
            /\ Goto(t, "ad_emit")
    /\ UNCHANGED <<Devices, ready, Callbacks, lock, devLocks, Bridges, nextProto, busObj,
                   devExported, signals, calls, history, logvars>>

AdEmit(t) ==
    /\ th[t].pc = "ad_emit"
    /\ signals' = [signals EXCEPT !.devAdded[th[t].p] = @ + 1]
    /\ th' = [th EXCEPT ![t].pc = "ad_unlock", ![t].emitted = @ + 1]
    /\ UNCHANGED <<Devices, ready, Callbacks, lock, devLocks, Bridges, nextProto, busObj,
                   devExported, goroutines, calls, history, logvars>>

\* AddDevice returns th[t].alreadyAdded
AdUnlock(t) ==
    /\ th[t].pc = "ad_unlock"
    /\ Unlock(th[t].p)
    /\ addsSince' = [addsSince EXCEPT ![th[t].p][th[t].d] = Min(@ + 1, 2)]
    /\ th' = [th EXCEPT ![t] = Idle]
    /\ UNCHANGED <<registry, devLocks, calls, setInvoked, setDone, logvars>>

\* --------------------------------------------------------- RemoveDevice
RdLock(t) ==
    /\ th[t].pc = "rd_lock"
    /\ Lock(t, th[t].p)
    /\ th' = [th EXCEPT ![t].pc = "rd_check",
                        ![t].in0 = th[t].d \in DOMAIN Devices[th[t].p],
                        ![t].n0 = Cardinality(DOMAIN Devices[th[t].p])]
    /\ UNCHANGED <<registry, devLocks, calls, history, logvars>>

\* RdCheck without the early return
RdCheck_NoEarlyReturn(t) ==
    /\ th[t].pc = "rd_check"
    /\ Goto(t, IF th[t].d \in DOMAIN Devices[th[t].p] THEN "rd_devlock" ELSE "rd_emit")
    /\ UNCHANGED <<registry, lock, devLocks, calls, history, logvars>>

\* the device is absent: unlock and return; present: go on
RdCheck(t) ==
    /\ th[t].pc = "rd_check"
    /\ IF th[t].d \in DOMAIN Devices[th[t].p]
       THEN /\ Goto(t, "rd_devlock")
            /\ lock' = lock
       ELSE /\ Unlock(th[t].p)
            /\ th' = [th EXCEPT ![t] = Return(t)]
    /\ UNCHANGED <<registry, devLocks, calls, history, logvars>>

RdDevLock(t) ==
    /\ th[t].pc = "rd_devlock"
    /\ <<th[t].p, th[t].d>> \notin devLocks
    /\ devLocks' = devLocks \cup {<<th[t].p, th[t].d>>}
    /\ Goto(t, "rd_clear")
    /\ UNCHANGED <<registry, lock, calls, history, logvars>>

\* RdClear with one signal per item deleted
RdClear_PerItem(t) ==
    /\ th[t].pc = "rd_clear"
    /\ Devices' = [Devices EXCEPT ![th[t].p][th[t].d] = {}]
    /\ th' = [th EXCEPT ![t].pc = "rd_cb",
                        ![t].cleared = Cardinality(Devices[th[t].p][th[t].d]),
                        ![t].emitted = @ + Cardinality(Devices[th[t].p][th[t].d])]
    /\ UNCHANGED <<ready, Callbacks, lock, devLocks, Bridges, nextProto, busObj, devExported,
                   signals, goroutines, calls, history, logvars>>

RdClear(t) ==
    /\ th[t].pc = "rd_clear"
    /\ Devices' = [Devices EXCEPT ![th[t].p][th[t].d] = {}]
    /\ th' = [th EXCEPT ![t].pc = "rd_cb",
                        ![t].cleared = Cardinality(Devices[th[t].p][th[t].d])]
    /\ UNCHANGED <<ready, Callbacks, lock, devLocks, Bridges, nextProto, busObj, devExported,
                   signals, goroutines, calls, history, logvars>>

RdCallback(t) ==
    /\ th[t].pc = "rd_cb"
    /\ IF Callbacks[th[t].p]
       THEN /\ goroutines' = Append(goroutines, [kind |-> "RemoveDevice", p |-> th[t].p,
                                                 d |-> th[t].d, started |-> FALSE])
            /\ th' = [th EXCEPT ![t].pc = "rd_devunlock", ![t].dispatched = @ + 1]
       ELSE /\ goroutines' = goroutines
            /\ Goto(t, "rd_devunlock")
    /\ UNCHANGED <<Devices, ready, Callbacks, lock, devLocks, Bridges, nextProto, busObj,
                   devExported, signals, calls, history, logvars>>

RdDevUnlock(t) ==
    /\ th[t].pc = "rd_devunlock"
    /\ devLocks' = devLocks \ {<<th[t].p, th[t].d>>}
    /\ Goto(t, "rd_delete")
    /\ UNCHANGED <<registry, lock, calls, history, logvars>>

RdDelete(t) ==
    /\ th[t].pc = "rd_delete"
    /\ Devices' = [Devices EXCEPT ![th[t].p] = MapDelete(@, th[t].d)]
    /\ addsSince' = [addsSince EXCEPT ![th[t].p][th[t].d] = 0]
    /\ Goto(t, "rd_emit")
    /\ UNCHANGED <<ready, Callbacks, lock, devLocks, Bridges, nextProto, busObj, devExported,
                   signals, goroutines, calls, setInvoked, setDone, logvars>>

\* RdEmit without the emission
RdEmit_Silent(t) ==
    /\ th[t].pc = "rd_emit"
    /\ Goto(t, "rd_unlock")
    /\ UNCHANGED <<registry, lock, devLocks, calls, history, logvars>>

RdEmit(t) ==
    /\ th[t].pc = "rd_emit"
    /\ signals' = [signals EXCEPT !.devRemoved[th[t].p] = @ + 1]
    /\ th' = [th EXCEPT ![t].pc = "rd_unlock", ![t].emitted = @ + 1]
    /\ UNCHANGED <<Devices, ready, Callbacks, lock, devLocks, Bridges, nextProto, busObj,
                   devExported, goroutines, calls, history, logvars>>

RdUnlock(t) ==
    /\ th[t].pc = "rd_unlock"
    /\ Unlock(th[t].p)
    /\ th' = [th EXCEPT ![t] = Return(t)]
    /\ UNCHANGED <<registry, devLocks, calls, history, logvars>>

\* ------------------------------------------------------------ AddBridge
AbLock(t) ==
    /\ th[t].pc = "ab_lock"
    /\ Lock(t, Root)
    /\ th' = [th EXCEPT ![t].pc = "ab_check", ![t].in0 = th[t].b \in DOMAIN Bridges,
                        ![t].n0 = Cardinality(DOMAIN Bridges)]
    /\ UNCHANGED <<registry, devLocks, calls, history, logvars>>

\* AbCheck without the lookup of bridgeID
AbCheck_NoLookup(t) ==
    /\ th[t].pc = "ab_check"
    /\ th' = [th EXCEPT ![t].alreadyAdded = FALSE, ![t].pc = "ab_new"]
    /\ UNCHANGED <<registry, lock, devLocks, calls, history, logvars>>

AbCheck(t) ==
    /\ th[t].pc = "ab_check"
    /\ LET found == th[t].b \in DOMAIN Bridges
       IN th' = [th EXCEPT ![t].alreadyAdded = found,
                           ![t].pc = IF found THEN "ab_unlock" ELSE "ab_new"]
    /\ UNCHANGED <<registry, lock, devLocks, calls, history, logvars>>

\* proto = &Protocol{ready: false, Devices: make(map[string]*Device), ...}: a new object,
\* not ready, with no device, no callbacks and a free mutex
AbNew(t) ==
    /\ th[t].pc = "ab_new"
    /\ nextProto <= MaxProtos
    /\ nextProto' = nextProto + 1
    /\ Devices' = [Devices EXCEPT ![nextProto] = EmptyMap]
    /\ ready' = [ready EXCEPT ![nextProto] = FALSE]
    /\ Callbacks' = [Callbacks EXCEPT ![nextProto] = FALSE]
    /\ th' = [th EXCEPT ![t].pc = "ab_export", ![t].bp = nextProto]
    /\ UNCHANGED <<lock, devLocks, Bridges, busObj, devExported, signals, goroutines, calls,
                   history, logvars>>

\* conn.Export: on an error the path keeps what it had, a warning is logged
AbExport(t) ==
    /\ th[t].pc = "ab_export"
    /\ \E err \in BOOLEAN :
          /\ busObj' = IF err THEN busObj ELSE MapPut(busObj, th[t].b, th[t].bp)
          /\ th' = [th EXCEPT ![t].pc = "ab_insert",
                              ![t].err = IF err THEN "error" ELSE "nil"]
    /\ UNCHANGED <<Devices, ready, Callbacks, lock, devLocks, Bridges, nextProto, devExported,
                   signals, goroutines, calls, history, logvars>>

\* AbInsert put off until after the signal: the map is not written here
AbInsert_Deferred(t) ==
    /\ th[t].pc = "ab_insert"
    /\ Goto(t, "ab_emit")
    /\ UNCHANGED <<registry, lock, devLocks, calls, history, logvars>>

AbInsert(t) ==
    /\ th[t].pc = "ab_insert"
    /\ Bridges' = MapPut(Bridges, th[t].b, th[t].bp)
    /\ Goto(t, "ab_emit")
    /\ UNCHANGED <<Devices, ready, Callbacks, lock, devLocks, nextProto, busObj, devExported,
                   signals, goroutines, calls, history, logvars>>

\* AbEmit with the signal only for a bridge whose export succeeded
AbEmit_OnlyIfExported(t) ==
    /\ th[t].pc = "ab_emit"
    /\ IF th[t].err = "nil"
       THEN /\ signals' = [signals EXCEPT !.bridgeAdded[th[t].b] = @ + 1]
            /\ th' = [th EXCEPT ![t].pc = "ab_unlock", ![t].bemitted = @ + 1]
       ELSE /\ signals' = signals
            /\ Goto(t, "ab_unlock")
    /\ UNCHANGED <<Devices, ready, Callbacks, lock, devLocks, Bridges, nextProto, busObj,
                   devExported, goroutines, calls, history, logvars>>

AbEmit(t) ==
    /\ th[t].pc = "ab_emit"
    /\ signals' = [signals EXCEPT !.bridgeAdded[th[t].b] = @ + 1]
    /\ th' = [th EXCEPT ![t].pc = "ab_unlock", ![t].bemitted = @ + 1]
    /\ UNCHANGED <<Devices, ready, Callbacks, lock, devLocks, Bridges, nextProto, busObj,
                   devExported, goroutines, calls, history, logvars>>

\* AddBridge returns th[t].alreadyAdded
AbUnlock(t) ==
    /\ th[t].pc = "ab_unlock"
    /\ Unlock(Root)
    /\ th' = [th EXCEPT ![t] = Idle]
    /\ UNCHANGED <<registry, devLocks, calls, history, logvars>>

\* --------------------------------------------------------- RemoveBridge
RbLock(t) ==
    /\ th[t].pc = "rb_lock"
    /\ Lock(t, Root)
    /\ Goto(t, "rb_check")
    /\ UNCHANGED <<registry, devLocks, calls, history, logvars>>

\* the bridge is absent: unlock and return; present: go on with it
RbCheck(t) ==
    /\ th[t].pc = "rb_check"
    /\ IF th[t].b \in DOMAIN Bridges
       THEN /\ th' = [th EXCEPT ![t].pc = "rb_blk", ![t].bp = Bridges[th[t].b]]
            /\ lock' = lock
       ELSE /\ Unlock(Root)
            /\ th' = [th EXCEPT ![t] = Idle]
    /\ UNCHANGED <<registry, devLocks, calls, history, logvars>>

\* bridge.Protocol.Lock()
RbBridgeLock(t) ==
    /\ th[t].pc = "rb_blk"
    /\ Lock(t, th[t].bp)
    /\ th' = [th EXCEPT ![t].pc = "rb_loop", ![t].n0 = Cardinality(DOMAIN Devices[th[t].bp])]
    /\ UNCHANGED <<registry, devLocks, calls, history, logvars>>

\* for device := range bridge.Protocol.Devices { bridge.Protocol.RemoveDevice(device) }:
\* the range visits, in any order, every key that is still in the map; each
\* iteration calls RemoveDevice on the bridge's Protocol, whose mutex this goroutine holds
RbLoop(t) ==
    /\ th[t].pc = "rb_loop"
    /\ LET rest == DOMAIN Devices[th[t].bp] \ th[t].visited
       IN IF rest = {}
          THEN Goto(t, "rb_bunlock")
          ELSE \E d \in rest :
                  th' = [th EXCEPT ![t].pc = "rd_lock", ![t].p = th[t].bp, ![t].d = d,
                                   ![t].nested = TRUE]
    /\ UNCHANGED <<registry, lock, devLocks, calls, history, logvars>>

RbBridgeUnlock(t) ==
    /\ th[t].pc = "rb_bunlock"
    /\ Unlock(th[t].bp)
    /\ Goto(t, "rb_delete")
    /\ UNCHANGED <<registry, devLocks, calls, history, logvars>>

\* RbDelete on the wrong map: delete(r.Protocol.Devices, bridgeID)
RbDelete_WrongMap(t) ==
    /\ th[t].pc = "rb_delete"
    /\ Devices' = [Devices EXCEPT ![Root] = MapDelete(@, th[t].b)]
    /\ Goto(t, "rb_emit")
    /\ UNCHANGED <<ready, Callbacks, lock, devLocks, Bridges, nextProto, busObj, devExported,
                   signals, goroutines, calls, history, logvars>>

RbDelete(t) ==
    /\ th[t].pc = "rb_delete"
    /\ Bridges' = MapDelete(Bridges, th[t].b)
    /\ Goto(t, "rb_emit")
    /\ UNCHANGED <<Devices, ready, Callbacks, lock, devLocks, nextProto, busObj, devExported,
                   signals, goroutines, calls, history, logvars>>

RbEmit(t) ==
    /\ th[t].pc = "rb_emit"
    /\ signals' = [signals EXCEPT !.bridgeRemoved[th[t].b] = @ + 1]
    /\ th' = [th EXCEPT ![t].pc = "rb_unlock", ![t].bemitted = @ + 1]
    /\ UNCHANGED <<Devices, ready, Callbacks, lock, devLocks, Bridges, nextProto, busObj,
                   devExported, goroutines, calls, history, logvars>>

RbUnlock(t) ==
    /\ th[t].pc = "rb_unlock"
    /\ Unlock(Root)
    /\ th' = [th EXCEPT ![t] = Idle]
    /\ UNCHANGED <<registry, devLocks, calls, history, logvars>>

\* ------------------------------------------------------- specification
\* goroutine t starts a call
Call(t) ==
    \/ CallAddDevice(t) \/ CallRemoveDevice(t) \/ CallAddBridge(t) \/ CallRemoveBridge(t)
    \/ CallIsReady(t) \/ CallSetReady(t)

\* goroutine t executes the next step of the call it is in
Run(t) ==
    \/ SrLock(t) \/ SrSet(t) \/ SrUnlock(t)
    \/ IrLock(t) \/ IrRead(t) \/ IrUnlock(t)
    \/ AdLock(t) \/ AdCheck(t) \/ AdInsert(t) \/ AdExport(t) \/ AdCallback(t) \/ AdEmit(t)
    \/ AdUnlock(t)
    \/ RdLock(t) \/ RdCheck(t) \/ RdDevLock(t) \/ RdClear(t) \/ RdCallback(t)
    \/ RdDevUnlock(t) \/ RdDelete(t) \/ RdEmit(t) \/ RdUnlock(t)
    \/ AbLock(t) \/ AbCheck(t) \/ AbNew(t) \/ AbExport(t) \/ AbInsert(t) \/ AbEmit(t)
    \/ AbUnlock(t)
    \/ RbLock(t) \/ RbCheck(t) \/ RbBridgeLock(t) \/ RbLoop(t) \/ RbBridgeUnlock(t)
    \/ RbDelete(t) \/ RbEmit(t) \/ RbUnlock(t)

Next ==
    \/ \E t \in Threads : Call(t)
    \/ \E t \in Threads : Run(t)
    \/ \E p \in ProtoIds : SetCallbacks(p)
    \/ \E p \in ProtoIds, d \in DevIds, i \in ItemIds : AddItem(p, d, i)
    \/ \E i \in 1..MaxCalls : CallbackStart(i)

Spec == Init /\ [][Next]_vars

\* the Go scheduler runs every goroutine that can run, and a goroutine that waits
\* for a mutex gets it once the mutex stays free
FairSpec == Spec /\ \A t \in Threads : WF_vars(Run(t))

\* ------------------------------------------------- the positions of a call
AdPcs == {"ad_lock", "ad_check", "ad_insert", "ad_export", "ad_cb", "ad_emit", "ad_unlock"}
RdPcs == {"rd_lock", "rd_check", "rd_devlock", "rd_clear", "rd_cb", "rd_devunlock",
          "rd_delete", "rd_emit", "rd_unlock"}
AbPcs == {"ab_lock", "ab_check", "ab_new", "ab_export", "ab_insert", "ab_emit", "ab_unlock"}
RbPcs == {"rb_lock", "rb_check", "rb_blk", "rb_loop", "rb_bunlock", "rb_delete", "rb_emit",
          "rb_unlock"}
IrPcs == {"ir_lock", "ir_read", "ir_unlock"}

\* goroutine t is in RemoveDevice or RemoveBridge
InRemove(t) == th[t].pc \in RdPcs \cup RbPcs

\* this step is a step of goroutine t
Moves(t) == th'[t] # th[t]

\* ----------------------------------------------------------------- claims

\* C1: under fair scheduling every RemoveDevice call and every RemoveBridge call
\* eventually returns, whatever the other goroutines call.
C1_RemoveTerminates == \A t \in Threads : InRemove(t) ~> (th[t].pc = "idle")

\* C2: RemoveBridge on a present bridge that holds M devices ends with the bridge's
\* Protocol holding no device (so no item), exactly one bridge-removed signal emitted
\* by the call and, when the bridge's Protocol has callbacks, M remove-device
\* callbacks started by the call.
C2_RemoveBridgeCascades ==
    \A t \in Threads :
        (th[t].pc = "rb_loop" /\ th[t].visited = {})
        ~> (/\ th[t].pc = "rb_unlock"
            /\ Devices[th[t].bp] = EmptyMap
            /\ th[t].b \notin DOMAIN Bridges
            /\ th[t].bemitted = 1
            /\ Callbacks[th[t].bp] => th[t].dispatched = th[t].n0)

\* C3: AddDevice returns true exactly when the id was in the device map when the call
\* took the lock; it returns false on the first call for an id and true on every call
\* after it until the id is removed; a call that returns false leaves the map with one
\* device more, a call that returns true leaves its size as it was.
C3_AddDeviceTwice ==
    \A t \in Threads :
        th[t].pc = "ad_unlock" =>
            /\ th[t].alreadyAdded = th[t].in0
            /\ th[t].alreadyAdded = (addsSince[th[t].p][th[t].d] > 0)
            /\ th[t].d \in DOMAIN Devices[th[t].p]
            /\ Cardinality(DOMAIN Devices[th[t].p])
                  = th[t].n0 + (IF th[t].alreadyAdded THEN 0 ELSE 1)

C3_Witness ==
    \E t \in Threads :
        /\ th[t].pc = "ad_unlock"
        /\ th[t].alreadyAdded
        /\ addsSince[th[t].p][th[t].d] = 1
        /\ th[t].n0 = 1

\* C4: no step of an AddDevice call for an id that is already in the map changes the
\* device maps, the readiness flags, the bus objects, the signals or the callback
\* goroutines; the call emits nothing and starts no callback.
C4_DuplicateAddChangesNothing ==
    [][\A t \in Threads :
          (th[t].pc \in AdPcs \ {"ad_lock"} /\ th[t].in0 /\ Moves(t)) =>
              /\ UNCHANGED registry
              /\ th[t].emitted = 0 /\ th[t].dispatched = 0]_vars

C4_Witness ==
    \E t \in Threads :
        /\ th[t].pc = "ad_unlock"
        /\ th[t].in0
        /\ Callbacks[th[t].p]
        /\ Devices[th[t].p][th[t].d] # {}

\* C5: RemoveDevice for an id that is not in the map returns at once: the step after
\* the lock changes no device map, readiness flag, bus object, signal or callback
\* goroutine, releases the protocol lock and ends the call.
C5_RemoveAbsentIsNoOp ==
    [][\A t \in Threads :
          (th[t].pc \in RdPcs \ {"rd_lock"} /\ ~th[t].in0 /\ Moves(t)) =>
              /\ UNCHANGED registry
              /\ th[t].emitted = 0 /\ th[t].dispatched = 0
              /\ lock'[th[t].p] = NoOne
              /\ th'[t].pc = "idle"]_vars

C5_Witness ==
    \E t \in Threads :
        /\ th[t].pc = "rd_check"
        /\ ~th[t].in0
        /\ Callbacks[th[t].p]
        /\ Devices[th[t].p] # EmptyMap

\* C6: RemoveDevice on a present device: once its items are cleared the device has no
\* item while the device lock is held; when the call returns the device is out of the
\* map, the call has emitted exactly one signal (the device-removed one) and started
\* at most one callback goroutine (the remove-device one, when callbacks are set),
\* whatever the number of items.
C6_RemoveDeviceOneEvent ==
    \A t \in Threads :
        /\ th[t].pc \in {"rd_cb", "rd_devunlock"} =>
              /\ th[t].d \in DOMAIN Devices[th[t].p]
              /\ Devices[th[t].p][th[t].d] = {}
        /\ th[t].pc \in {"rd_clear", "rd_cb", "rd_devunlock", "rd_delete"} =>
              th[t].emitted = 0
        /\ th[t].pc \in RdPcs => th[t].dispatched <= 1
        /\ th[t].pc = "rd_unlock" =>
              /\ th[t].in0
              /\ th[t].d \notin DOMAIN Devices[th[t].p]
              /\ th[t].emitted = 1
              /\ th[t].dispatched = (IF Callbacks[th[t].p] THEN 1 ELSE 0)
        /\ \A i \in DOMAIN goroutines : goroutines[i].kind \in {"AddDevice", "RemoveDevice"}

C6_Witness ==
    \E t \in Threads :
        /\ th[t].pc = "rd_unlock"
        /\ th[t].cleared = NumItems
        /\ th[t].dispatched = 1

\* --------------------------------------- concurrent AddDevice calls alone
\* Goroutine t calls AddDevice on the root protocol with an id that is not in the map
\* and that no other call is adding; NumThreads such calls are made in all.
CallDistinctAdd(t) ==
    /\ calls < NumThreads
    /\ \E d \in DevIds \ DOMAIN Devices[Root] :
          /\ \A u \in Threads : th[u].pc \in AdPcs => th[u].d # d
          /\ Enter(t, "ad_lock", Root, d, 0)
    /\ UNCHANGED <<registry, lock, devLocks, history, logvars>>

AddOnly(t) ==
    \/ AdLock(t) \/ AdCheck(t) \/ AdInsert(t) \/ AdExport(t) \/ AdCallback(t) \/ AdEmit(t)
    \/ AdUnlock(t)

NextAdd ==
    \/ \E t \in Threads : CallDistinctAdd(t)
    \/ \E t \in Threads : AddOnly(t)
    \/ SetCallbacks(Root)
    \/ \E i \in 1..NumThreads : CallbackStart(i)

\* NumThreads AddDevice calls with pairwise distinct, absent ids on one protocol, in
\* every interleaving, and nothing else
SpecAdd == Init /\ [][NextAdd]_vars

\* C7: concurrent AddDevice calls with pairwise distinct ids, none present beforehand:
\* every call returns false, and once all calls have returned the map holds exactly
\* the ids added, one per call, and one device-added signal was emitted per call.
C7_ConcurrentAdds ==
    /\ \A t \in Threads : th[t].pc = "ad_unlock" => ~th[t].alreadyAdded
    /\ (\A t \in Threads : th[t].pc = "idle") =>
          /\ Cardinality(DOMAIN Devices[Root]) = calls
          /\ DOMAIN Devices[Root] = {d \in DevIds : addsSince[Root][d] = 1}
          /\ signals.devAdded[Root] = calls

C7_Witness ==
    /\ \A t \in Threads : th[t].pc = "idle"
    /\ calls = NumThreads
    /\ Cardinality(DOMAIN Devices[Root]) = NumThreads
    /\ signals.devAdded[Root] = NumThreads

\* C8: the readiness flag never goes back to false; IsReady returns true only if
\* setReady was called on the protocol, returns true whenever setReady has returned
\* on it, and no step of IsReady changes the registry.
C8_ReadyMonotone ==
    /\ [][\A p \in ProtoIds : ready[p] => ready'[p]]_vars
    /\ [](\A t \in Threads :
             th[t].pc = "ir_unlock" =>
                 /\ th[t].ready => setInvoked[th[t].p]
                 /\ setDone[th[t].p] => th[t].ready)
    /\ [](\A p \in ProtoIds : (setDone[p] => ready[p]) /\ (ready[p] => setInvoked[p]))
    /\ [][\A t \in Threads : (th[t].pc \in IrPcs /\ Moves(t)) => UNCHANGED registry]_vars

C8_Witness ==
    \E t, u \in Threads :
        /\ th[t].pc = "ir_unlock"
        /\ th[t].ready
        /\ setDone[th[t].p]
        /\ th[u].pc \in {"ad_insert", "rd_clear", "ab_insert", "rb_loop"}

\* C9: AddBridge returns true exactly when the bridge id was in the bridge map when
\* the call took the root lock, and then no step of the call changes the registry;
\* otherwise it creates a Protocol object that no bridge and no bus path holds, not
\* ready and without devices, puts that object in the bridge map under the id and
\* emits exactly one bridge-added signal.  An entry of the bridge map is never
\* replaced by another one for the same id.
C9_AddBridge ==
    /\ [](\A t \in Threads :
             /\ th[t].pc \in AbPcs \ {"ab_lock", "ab_check"} => th[t].alreadyAdded = th[t].in0
             /\ th[t].pc = "ab_export" =>
                   /\ ~ready[th[t].bp]
                   /\ Devices[th[t].bp] = EmptyMap
                   /\ th[t].bp \notin Reachable
             /\ th[t].pc = "ab_unlock" =>
                   /\ th[t].b \in DOMAIN Bridges
                   /\ th[t].bemitted = (IF th[t].alreadyAdded THEN 0 ELSE 1)
                   /\ ~th[t].alreadyAdded => Bridges[th[t].b] = th[t].bp
                   /\ Cardinality(DOMAIN Bridges)
                         = th[t].n0 + (IF th[t].alreadyAdded THEN 0 ELSE 1))
    /\ [][\A t \in Threads :
             (th[t].pc \in AbPcs \ {"ab_lock"} /\ th[t].in0 /\ Moves(t)) => UNCHANGED registry]_vars
    /\ [][\A b \in DOMAIN Bridges : b \in DOMAIN Bridges' => Bridges'[b] = Bridges[b]]_vars

C9_Witness ==
    \E t \in Threads :
        /\ th[t].pc = "ab_unlock"
        /\ th[t].alreadyAdded
        /\ Devices[Bridges[th[t].b]] # EmptyMap

\* C10: no step of AddBridge or RemoveBridge changes the device map of the root
\* protocol; no step of AddDevice or RemoveDevice on the root protocol changes the
\* bridge map or the device map of a bridge; RemoveDevice on the root for a present id
\* leaves the root map without it, empty when it was the only device, having emitted
\* exactly one device-removed signal.
C10_BridgesAndRootIndependent ==
    /\ [][\A t \in Threads :
             (th[t].pc \in AbPcs \cup RbPcs /\ Moves(t)) => Devices'[Root] = Devices[Root]]_vars
    /\ [][\A t \in Threads :
             (th[t].pc \in AdPcs \cup RdPcs /\ th[t].p = Root /\ Moves(t)) =>
                 /\ Bridges' = Bridges
                 /\ \A q \in ProtoIds \ {Root} : Devices'[q] = Devices[q]]_vars
    /\ [](\A t \in Threads :
             (th[t].pc = "rd_unlock" /\ th[t].p = Root) =>
                 /\ th[t].d \notin DOMAIN Devices[Root]
                 /\ th[t].n0 = 1 => Devices[Root] = EmptyMap
                 /\ th[t].emitted = 1
                 /\ signals.devRemoved[Root] >= 1)

C10_Witness ==
    \E t \in Threads, b \in BridgeIds :
        /\ th[t].pc = "rd_unlock"
        /\ th[t].p = Root
        /\ th[t].n0 = 1
        /\ Devices[Root] = EmptyMap
        /\ signals.devRemoved[Root] = 1
        /\ signals.bridgeAdded[b] = 1
        /\ signals.bridgeRemoved[b] = 1
        /\ b \notin DOMAIN Bridges

\* C11: for one device id of one protocol, the goroutine of Callbacks.AddDevice
\* started by AddDevice begins to run before the goroutine of Callbacks.RemoveDevice
\* started by a later RemoveDevice of that id does.
C11_AddCallbackBeforeRemoveCallback ==
    \A i, j \in DOMAIN goroutines :
        (/\ i < j
         /\ goroutines[i].kind = "AddDevice"
         /\ goroutines[j].kind = "RemoveDevice"
         /\ goroutines[i].p = goroutines[j].p
         /\ goroutines[i].d = goroutines[j].d
         /\ goroutines[j].started)
        => goroutines[i].started

\* C12: whenever no call holds the lock that guards the map, no bus object is left
\* for a bridge that is not in the bridge map or for a device that is not in its
\* protocol's device map.
C12_NoBusObjectForAbsentEntity ==
    /\ lock[Root] = NoOne => \A b \in DOMAIN busObj : b \in DOMAIN Bridges
    /\ \A q \in ProtoIds :
          lock[q] = NoOne =>
              \A d \in DevIds : <<q, d>> \in devExported => d \in DOMAIN Devices[q]

\* ----------------------------------------------- the property LogLevel
\* the names of the levels of the logger, from the most to the least severe
LevelNames == {"CRITICAL", "ERROR", "WARNING", "NOTICE", "INFO", "DEBUG"}

\* the strings written to the property
Values == LevelNames \cup {"debug", "info", "Warning", "verbose", "TRACE", ""}

\* strings.ToUpper on these strings
ToUpper(v) ==
    CASE v = "debug" -> "DEBUG"
      [] v = "info" -> "INFO"
      [] v = "Warning" -> "WARNING"
      [] v = "verbose" -> "VERBOSE"
      [] OTHER -> v

\* logging.LogLevel: the level whose name equals the string, letter case ignored;
\* ERROR and an error when there is none
LogLevel(v) ==
    IF ToUpper(v) \in LevelNames
    THEN [level |-> ToUpper(v), err |-> FALSE]
    ELSE [level |-> "ERROR", err |-> TRUE]

\* setLogLevel with the error returned on the parse failure, not on the success
setLogLevel_ErrorOnFailure(v) ==
    /\ calls < MaxCalls
    /\ calls' = calls + 1
    /\ propValue' = v
    /\ LET r == LogLevel(v)
       IN IF ~r.err
          THEN /\ logLevel' = r.level
               /\ logged' = [logged EXCEPT !.info = @ + 1]
               /\ propErr' = "nil"
          ELSE /\ logLevel' = logLevel
               /\ logged' = [logged EXCEPT !.error = @ + 1]
               /\ propErr' = "InvalidArg"
    /\ UNCHANGED <<registry, lock, devLocks, th, history>>

\* the callback of the property LogLevel, called with c.Value = v
setLogLevel(v) ==
    /\ calls < MaxCalls
    /\ calls' = calls + 1
    /\ propValue' = v
    /\ LET r == LogLevel(v)
       IN IF ~r.err
          THEN /\ logLevel' = r.level
               /\ logged' = [logged EXCEPT !.info = @ + 1]
               /\ propErr' = "InvalidArg"
          ELSE /\ logLevel' = logLevel
               /\ logged' = [logged EXCEPT !.error = @ + 1]
               /\ propErr' = "nil"
    /\ UNCHANGED <<registry, lock, devLocks, th, history>>

NextLog == \E v \in Values : setLogLevel(v)

\* the writes of the property LogLevel alone
SpecLog == Init /\ [][NextLog]_vars

\* C13: a write of the property with a value that names a level (letter case
\* ignored) sets the process-wide level to it and returns the error InvalidArg; a
\* write with any other value leaves the level as it was and returns no error.
C13_LogLevelPolarity ==
    [][calls' = calls + 1 =>
          IF \E n \in LevelNames : ToUpper(propValue') = n
          THEN /\ logLevel' = ToUpper(propValue')
               /\ propErr' = "InvalidArg"
          ELSE /\ logLevel' = logLevel
               /\ propErr' = "nil"]_vars

C13_Witness ==
    /\ propValue = "verbose"
    /\ propErr = "nil"
    /\ logLevel = "INFO"
    /\ logged.info >= 1
    /\ logged.error >= 1

\* ------------------------------------------------------------ lock order
\* goroutine t is at a Lock() of a Protocol mutex
AcquiresProto(t) ==
    th[t].pc \in {"ad_lock", "rd_lock", "ir_lock", "sr_lock", "ab_lock", "rb_lock", "rb_blk"}

\* the Protocol whose mutex goroutine t is about to lock
Target(t) ==
    IF th[t].pc \in {"ab_lock", "rb_lock"} THEN Root
    ELSE IF th[t].pc = "rb_blk" THEN th[t].bp
    ELSE th[t].p

\* goroutine t holds the mutex of a Device
HoldsDevice(t) == th[t].pc \in {"rd_clear", "rd_cb", "rd_devunlock"}

\* some goroutines wait, each for a mutex that one of them holds
Deadlocked ==
    \E S \in SUBSET Threads \ {{}} :
        \A t \in S : AcquiresProto(t) /\ lock[Target(t)] \in S

\* C14: no goroutine locks a Protocol mutex while it holds a Device mutex, none locks
\* the root Protocol mutex while it holds a bridge Protocol mutex, none locks a mutex
\* it holds already, and no state is a deadlock.
C14_LockOrderNoDeadlock ==
    /\ \A t \in Threads :
          AcquiresProto(t) =>
              /\ ~HoldsDevice(t)
              /\ Target(t) = Root => \A q \in ProtoIds \ {Root} : lock[q] # t
              /\ lock[Target(t)] # t
    /\ ~Deadlocked

\* ------------------------------------------------- signals and the maps
\* goroutine t takes a step and holds the mutex of Protocol q before and after it
StepsUnderLock(t, q) == th'[t] # th[t] /\ lock[q] = t /\ lock'[q] = t

\* C15: a device-added signal is emitted once the device is in the map and its export
\* was requested, a bridge-added signal once the bridge is in the map and its export
\* was attempted, a removed signal once the entry is deleted; the emitting call holds
\* the Protocol mutex at the emission and still holds it afterwards.
C15_SignalAfterUpdate ==
    [][/\ \A q \in ProtoIds :
             /\ signals'.devAdded[q] # signals.devAdded[q] =>
                   \E t \in Threads :
                       /\ StepsUnderLock(t, q)
                       /\ th[t].p = q
                       /\ th[t].d \in DOMAIN Devices[q]
                       /\ <<q, th[t].d>> \in devExported
             /\ signals'.devRemoved[q] # signals.devRemoved[q] =>
                   \E t \in Threads :
                       /\ StepsUnderLock(t, q)
                       /\ th[t].p = q
                       /\ th[t].d \notin DOMAIN Devices[q]
       /\ \A b \in BridgeIds :
             /\ signals'.bridgeAdded[b] # signals.bridgeAdded[b] =>
                   \E t \in Threads :
                       /\ StepsUnderLock(t, Root)
                       /\ th[t].b = b
                       /\ b \in DOMAIN Bridges
                       /\ Bridges[b] = th[t].bp
                       /\ th[t].err # "unset"
             /\ signals'.bridgeRemoved[b] # signals.bridgeRemoved[b] =>
                   \E t \in Threads :
                       /\ StepsUnderLock(t, Root)
                       /\ th[t].b = b
                       /\ b \notin DOMAIN Bridges]_vars

\* a device-added signal was just emitted on a bridge's Protocol, after a bridge-added
\* and a device-removed signal
C15_Witness ==
    \E t \in Threads :
        /\ th[t].pc = "ad_unlock"
        /\ th[t].emitted = 1
        /\ th[t].p # Root
        /\ \E b \in BridgeIds : signals.bridgeAdded[b] >= 1
        /\ signals.devRemoved[Root] >= 1

\* ------------------------------------------------------ children first
\* C16: at the step where RemoveBridge deletes a bridge from the bridge map, the device
\* map of that bridge's Protocol is empty.
C16_BridgeDeletedEmpty ==
    \A t \in Threads :
        th[t].pc = "rb_delete" => DOMAIN Devices[th[t].bp] = {}

\* ------------------------------------------------------------ callbacks
RemoveOnly(t) ==
    \/ RdLock(t) \/ RdCheck(t) \/ RdDevLock(t) \/ RdClear(t) \/ RdCallback(t)
    \/ RdDevUnlock(t) \/ RdDelete(t) \/ RdEmit(t) \/ RdUnlock(t)

NextDev ==
    \/ \E t \in Threads : CallAddDevice(t)
    \/ \E t \in Threads : CallRemoveDevice(t)
    \/ \E t \in Threads : AddOnly(t)
    \/ \E t \in Threads : RemoveOnly(t)
    \/ SetCallbacks(Root)
    \/ \E i \in 1..MaxCalls : CallbackStart(i)

\* AddDevice and RemoveDevice calls on the root Protocol, in every interleaving, with
\* callbacks that start at any time or never and do not return; every goroutine that
\* can run does run
FairSpecDev == Init /\ [][NextDev]_vars /\ \A t \in Threads : WF_vars(AddOnly(t) \/ RemoveOnly(t))

\* C17: the callbacks run in goroutines of their own, which never end here (a callback
\* that blocks forever); the AddDevice or RemoveDevice call that is at the dispatch
\* still returns, and its return leaves the Protocol mutex free for the next call.
C17_BlockedCallbackDoesNotStall ==
    /\ \A t \in Threads : (th[t].pc \in {"ad_cb", "rd_cb"}) ~> (th[t].pc = "idle")
    /\ [][\A t \in Threads :
             (th[t].pc \in {"ad_unlock", "rd_unlock"} /\ th'[t].pc = "idle")
                 => lock'[th[t].p] = NoOne]_vars

\* the AddDevice callback of a device was started and has not returned; the AddDevice
\* call has returned and a later RemoveDevice of that device holds the mutex, has
\* dispatched its own callback and is about to return
C17_Witness ==
    \E t \in Threads : \E i \in DOMAIN goroutines :
        /\ goroutines[i].kind = "AddDevice"
        /\ goroutines[i].started
        /\ th[t].pc = "rd_unlock"
        /\ th[t].p = goroutines[i].p
        /\ th[t].d = goroutines[i].d
        /\ th[t].dispatched = 1
        /\ lock[th[t].p] = t

\* -------------------------------------------------------- failed export
\* C18: an AddBridge call whose conn.Export returned an error returns false, with the
\* bridge in the bridge map, one bridge-added signal emitted, no bus object for the new
\* Protocol, and the root mutex free after the return.
C18_FailedExportStillAdds ==
    [][\A t \in Threads :
          (th[t].pc = "ab_unlock" /\ th[t].err = "error" /\ th'[t].pc = "idle") =>
              /\ ~th[t].alreadyAdded
              /\ th[t].b \in DOMAIN Bridges'
              /\ Bridges'[th[t].b] = th[t].bp
              /\ th[t].bemitted = 1
              /\ \A b \in DOMAIN busObj' : busObj'[b] # th[t].bp
              /\ lock'[Root] = NoOne]_vars

\* an AddBridge call is about to return after conn.Export failed
C18_Witness ==
    \E t \in Threads :
        /\ th[t].pc = "ab_unlock"
        /\ th[t].err = "error"
        /\ th[t].b \in DOMAIN Bridges
        /\ th[t].b \notin DOMAIN busObj

\* ------------------------------------------------------ removed bridges
\* q is the Protocol of a bridge that RemoveBridge has deleted from the bridge map:
\* an object that AddBridge created, that is not in the map and not on its way into it
Removed(q) ==
    /\ q \in 1..(nextProto - 1)
    /\ \A b \in DOMAIN Bridges : Bridges[b] # q
    /\ \A t \in Threads : th[t].pc \in {"ab_export", "ab_insert"} => th[t].bp # q

\* C19: no step inserts a device into the Protocol of a removed bridge, exports a
\* device object for it or emits a device-added signal for it.
C19_RemovedBridgeStaysSilent ==
    [][\A q \in ProtoIds :
          Removed(q) =>
              /\ DOMAIN Devices'[q] \subseteq DOMAIN Devices[q]
              /\ \A d \in DevIds : <<q, d>> \in devExported' => <<q, d>> \in devExported
              /\ signals'.devAdded[q] = signals.devAdded[q]]_vars

\* ---------------------------------------------------- signal accounting
RECURSIVE BridgeBalance(_)
\* bridge-added minus bridge-removed signals emitted, over the bridge ids of B
BridgeBalance(B) ==
    IF B = {} THEN 0
    ELSE LET b == CHOOSE x \in B : TRUE
         IN signals.bridgeAdded[b] - signals.bridgeRemoved[b] + BridgeBalance(B \ {b})

\* C20: while the mutex of a Protocol is free, its device map holds as many devices as
\* device-added minus device-removed signals were emitted for it; while the root mutex
\* is free, the bridge map holds as many bridges as bridge-added minus bridge-removed
\* signals were emitted.
C20_SignalAccounting ==
    /\ \A q \in ProtoIds :
          lock[q] = NoOne =>
              Cardinality(DOMAIN Devices[q]) = signals.devAdded[q] - signals.devRemoved[q]
    /\ lock[Root] = NoOne =>
          Cardinality(DOMAIN Bridges) = BridgeBalance(BridgeIds)

\* no call is running, after a device of the root Protocol was removed and while it
\* holds another one and a bridge exists
C20_Witness ==
    /\ \A t \in Threads : th[t].pc = "idle"
    /\ signals.devRemoved[Root] >= 1
    /\ DOMAIN Devices[Root] # {}
    /\ DOMAIN Bridges # {}

====
